---- MODULE Spec2Model ----
(***************************************************************************)
(* A model of the Cisco router management backend: the Flask route layer   *)
(* of app.py (session gate, inventory load, transport sessions, ping       *)
(* probe) and the GraphQL inventory CRUD of graphql_schema.py over the     *)
(* store of netmiko_config.py.                                             *)
(*                                                                         *)
(* Python values are modelled as follows.  None is the string NoneVal     *)
(* where a string may stand and the record PyNone elsewhere.  A dict whose *)
(* keys vary (the Flask session) is a set of <<key, value>>                *)
(* pairs.  A text that is parsed character by character (ping output) is a *)
(* sequence of one-character strings, "\n" ending a line.  A float is      *)
(* PyFloat of its value in thousandths.  An exception that leaves a        *)
(* handler is the response Flask makes of it: status 500 with the body     *)
(* [unhandled |-> name of the exception].  Timestamps are left out.        *)
(***************************************************************************)
EXTENDS Integers, Sequences, FiniteSets, TLC

VARIABLES
    file,       \* devices.yaml, the backing file of both inventory stores
    session,    \* session[c]: the Flask session of client c, a set of <<key, value>>
    req,        \* the last HTTP request: client, route, data and what the devices did
    resp,       \* the response to it: status and JSON body
    io,         \* the device I/O the handler performed while serving it
    crud,       \* the last GraphQL operation and what it returned
    probe,      \* the last direct call of the reachability prober and its result
    threads     \* threads[t]: the GraphQL mutation that server thread t is running

vars == <<file, session, req, resp, io, crud, probe, threads>>

NoneVal == "None"
PyNone == [py |-> "None"]
PyFloat(milli) == [py |-> "float", milli |-> milli]

(***************************************************************************)
(* Bounds of the model.                                                    *)
(***************************************************************************)
MaxCmds == 2        \* longest template command list
MaxDevices == 3     \* longest inventory the CRUD mutations build
MaxId == 4          \* largest identifier createDevice assigns
MaxLines == 2       \* most lines of a ping output
MaxRuns == 2        \* most mutations the server threads run in all

Clients == {"c1"}

(***************************************************************************)
(* Sequence helpers.                                                       *)
(***************************************************************************)
SeqsUpTo(S, n) == UNION {[1..k -> S] : k \in 0..n}

Max(S) == CHOOSE x \in S : \A y \in S : y <= x

\* the index of the first record of seq whose field key holds value, 0 when
\* there is none
FirstIndex(seq, key, value) ==
    IF \E i \in 1..Len(seq) : seq[i][key] = value
    THEN CHOOSE i \in 1..Len(seq) :
             seq[i][key] = value /\ \A j \in 1..(i-1) : seq[j][key] # value
    ELSE 0

(***************************************************************************)
(* The backing file.  kind says what the file holds:                       *)
(*   absent       no such file                                             *)
(*   unparseable  text yaml.safe_load rejects with a YAMLError             *)
(*   empty        an empty document: safe_load returns None                *)
(*   nokey        a mapping without the key devices                        *)
(*   devices      a mapping whose key devices holds the sequence devices   *)
(***************************************************************************)
FileAbsent      == [kind |-> "absent",      devices |-> <<>>]
FileUnparseable == [kind |-> "unparseable", devices |-> <<>>]
FileEmpty       == [kind |-> "empty",       devices |-> <<>>]
FileNoKey       == [kind |-> "nokey",       devices |-> <<>>]
FileOf(devs)    == [kind |-> "devices",     devices |-> devs]

Dev(id, name, host, username, password, secret, device_type) ==
    [id |-> id, name |-> name, host |-> host, username |-> username,
     password |-> password, secret |-> secret, device_type |-> device_type]

R1 == Dev(1, "R1", "10.0.0.1", "cisco", "cisco1", "en1", "cisco_ios")
R2 == Dev(2, "R2", "10.0.0.2", "admin", "cisco2", "en2", "cisco_xe")
\* a second record named R1: names are not unique in the store
R1dup == Dev(3, "R1", "10.0.0.3", "cisco", "cisco3", "en3", "cisco_ios")

InitFiles ==
    {FileAbsent, FileUnparseable, FileEmpty, FileNoKey,
     FileOf(<<>>), FileOf(<<R1, R2>>), FileOf(<<R2, R1, R1dup>>)}

(***************************************************************************)
(* app.py load_devices: the result of the call, either a raised exception  *)
(* or the returned sequence.                                               *)
(***************************************************************************)
Returned(v) == [raised |-> NoneVal, value |-> v]
Raised(exc) == [raised |-> exc, value |-> <<>>]

load_devices(f) ==
    CASE f.kind = "absent"      -> Returned(<<>>)          \* except FileNotFoundError
      [] f.kind = "unparseable" -> Returned(<<>>)          \* except yaml.YAMLError
      [] f.kind = "empty"       -> Raised("TypeError")     \* None['devices']
      [] f.kind = "nokey"       -> Raised("KeyError")      \* data['devices']
      [] f.kind = "devices"     -> Returned(f.devices)

(***************************************************************************)
(* netmiko_config.py load_devices and save_devices.                        *)
(***************************************************************************)
netmiko_load_devices(f) ==
    CASE f.kind = "absent"      -> Returned(<<>>)          \* except FileNotFoundError
      [] f.kind = "unparseable" -> Raised("YAMLError")     \* not caught
      [] f.kind = "empty"       -> Returned(<<>>)          \* None or {}
      [] f.kind = "nokey"       -> Returned(<<>>)          \* data.get("devices", [])
      [] f.kind = "devices"     -> Returned(f.devices)

\* save_devices({"devices": devices}): yaml.dump of the mapping replaces the file
save_devices(doc) == FileOf(doc.devices)

(***************************************************************************)
(* Credentials and the session.                                            *)
(***************************************************************************)
USERS == {[username |-> "admin", password |-> "admin123", role |-> "admin"],
          [username |-> "user",  password |-> "user123",  role |-> "user"]}

InUSERS(u) == \E e \in USERS : e.username = u
USERSof(u) == CHOOSE e \in USERS : e.username = u

SessionHas(s, key) == \E p \in s : p[1] = key
SessionGet(s, key) == (CHOOSE p \in s : p[1] = key)[2]
SessionSet(s, key, value) == {p \in s : p[1] # key} \cup {<<key, value>>}

\* what a request body may carry for username and password
Usernames == {"admin", "user", "guest", NoneVal}
Passwords == {"admin123", "user123", "letmein", NoneVal}

(***************************************************************************)
(* Text: str.split, the "in" test on strings, and the regular expression   *)
(* of extract_response_time.                                               *)
(***************************************************************************)
DigitChars == {"0", "1", "2", "3", "4", "5", "6", "7", "8", "9"}
SpaceChars == {" ", "\t"}

DigitVal(c) ==
    CASE c = "0" -> 0 [] c = "1" -> 1 [] c = "2" -> 2 [] c = "3" -> 3 [] c = "4" -> 4
      [] c = "5" -> 5 [] c = "6" -> 6 [] c = "7" -> 7 [] c = "8" -> 8 [] c = "9" -> 9

\* re.IGNORECASE: the letters of the pattern match either case
Lower(c) ==
    CASE c = "T" -> "t" [] c = "I" -> "i" [] c = "M" -> "m" [] c = "E" -> "e"
      [] c = "S" -> "s" [] OTHER -> c

\* text.split('\n')
RECURSIVE SplitLines(_)
SplitLines(text) ==
    IF \E i \in 1..Len(text) : text[i] = "\n"
    THEN LET i == CHOOSE k \in 1..Len(text) :
                      text[k] = "\n" /\ \A j \in 1..(k-1) : text[j] # "\n"
         IN <<SubSeq(text, 1, i-1)>> \o SplitLines(SubSeq(text, i+1, Len(text)))
    ELSE <<text>>

\* pat in line
Contains(line, pat) ==
    \E i \in 1..(Len(line) - Len(pat) + 1) : SubSeq(line, i, i + Len(pat) - 1) = pat

\* the first position at or after k whose character is not in Class
SkipWhile(line, k, Class) ==
    IF \E j \in k..Len(line) : line[j] \notin Class
    THEN CHOOSE j \in k..Len(line) :
             line[j] \notin Class /\ \A h \in k..(j-1) : line[h] \in Class
    ELSE Len(line) + 1

\* time[=<]\s*(\d+(?:\.\d+)?)\s*ms anchored at position i, ignoring case:
\* whether it matches, and the span of group 1
MatchAt(line, i) ==
    LET n == Len(line)
        Lit(k, c) == k <= n /\ Lower(line[k]) = c
        p1 == SkipWhile(line, i + 5, SpaceChars)        \* \s*
        d1 == SkipWhile(line, p1, DigitChars)           \* \d+
        hasFrac == /\ d1 + 1 <= n
                   /\ line[d1] = "."
                   /\ line[d1 + 1] \in DigitChars
        f  == IF hasFrac THEN SkipWhile(line, d1 + 1, DigitChars) ELSE d1
        p2 == SkipWhile(line, f, SpaceChars)            \* \s*
    IN [ok |-> /\ Lit(i, "t") /\ Lit(i+1, "i") /\ Lit(i+2, "m") /\ Lit(i+3, "e")
               /\ i + 4 <= n /\ line[i+4] \in {"=", "<"}
               /\ d1 > p1
               /\ Lit(p2, "m") /\ Lit(p2 + 1, "s"),
        intFrom |-> p1, intTo |-> d1 - 1, hasFrac |-> hasFrac,
        fracFrom |-> d1 + 1, fracTo |-> f - 1]

\* re.search: the leftmost position at which the pattern matches, or 0
Search(line) ==
    IF \E i \in 1..Len(line) : MatchAt(line, i).ok
    THEN CHOOSE i \in 1..Len(line) :
             MatchAt(line, i).ok /\ \A j \in 1..(i-1) : ~MatchAt(line, j).ok
    ELSE 0

RECURSIVE IntOf(_)
IntOf(digits) ==
    IF digits = <<>> THEN 0
    ELSE 10 * IntOf(SubSeq(digits, 1, Len(digits) - 1)) + DigitVal(digits[Len(digits)])

\* float(text) of digits[.digits], in thousandths (fractions of up to three digits)
Float(intDigits, fracDigits) ==
    LET pad == fracDigits \o [k \in 1..(3 - Len(fracDigits)) |-> "0"]
    IN PyFloat(1000 * IntOf(intDigits) + IntOf(SubSeq(pad, 1, 3)))

(***************************************************************************)
(* app.py extract_response_time.                                           *)
(***************************************************************************)
TimeEq   == <<"t", "i", "m", "e", "=">>
TiempoEq == <<"t", "i", "e", "m", "p", "o", "=">>

RECURSIVE ExtractFromLines(_)
ExtractFromLines(lines) ==
    IF lines = <<>> THEN PyNone
    ELSE LET line == Head(lines)
             i == Search(line)
             m == MatchAt(line, i)
         IN IF (Contains(line, TimeEq) \/ Contains(line, TiempoEq)) /\ i # 0
            THEN Float(SubSeq(line, m.intFrom, m.intTo),
                       IF m.hasFrac THEN SubSeq(line, m.fracFrom, m.fracTo) ELSE <<>>)
            ELSE ExtractFromLines(Tail(lines))

extract_response_time(ping_output) == ExtractFromLines(SplitLines(ping_output))

(***************************************************************************)
(* app.py ping_device.  run is what subprocess.run did: kind "exit" with   *)
(* the return code and the captured streams, kind "timeout" when the       *)
(* 10 second timeout expired (stdout is what was captured until then),     *)
(* kind "oserror" when the ping binary could not be started.               *)
(***************************************************************************)
\* a prober that reports whatever the process printed as a success
ping_device_any_exit(host, run) ==
    CASE run.kind = "exit" ->
            [status |-> "success", message |-> "Dispositivo alcanzable",
             output |-> run.stdout,
             response_time |-> extract_response_time(run.stdout)]
      [] run.kind = "timeout" ->
            [status |-> "timeout", message |-> "Tiempo de espera agotado",
             output |-> "El ping excedio el tiempo limite de 10 segundos",
             response_time |-> PyNone]
      [] OTHER ->
            [status |-> "error", message |-> "Error al ejecutar ping",
             output |-> <<>>,
             response_time |-> PyNone]

ping_device(host, run) ==
    CASE run.kind = "exit" /\ run.returncode = 0 ->
            [status |-> "success", message |-> "Dispositivo alcanzable",
             output |-> run.stdout,
             response_time |-> extract_response_time(run.stdout)]
      [] run.kind = "exit" /\ run.returncode # 0 ->
            [status |-> "error", message |-> "Dispositivo no alcanzable",
             output |-> run.stdout \o run.stderr,
             response_time |-> PyNone]
      [] run.kind = "timeout" ->
            [status |-> "timeout", message |-> "Tiempo de espera agotado",
             output |-> "El ping excedio el tiempo limite de 10 segundos",
             response_time |-> PyNone]
      [] OTHER ->
            [status |-> "error", message |-> "Error al ejecutar ping",
             output |-> <<>>,
             response_time |-> PyNone]

(***************************************************************************)
(* Ping output the prober is run on.  Each sample line carries, beside its *)
(* characters, what it is: marker "time" or "tiempo" for a line            *)
(* "<marker>=<n> ms" together with n, "none" for a line without a time     *)
(* marker, "other" for a line that resembles a marker without being one of *)
(* the two forms (time<1ms, TIME=7 ms, time=ms, a unit other than ms).     *)
(***************************************************************************)
Pre == <<"b", "=", "3", "2", " ">>
Ms  == <<"m", "s">>

SampleLine(chars, marker, n) == [chars |-> chars, marker |-> marker, n |-> n]

PingLines ==
    { SampleLine(Pre \o TimeEq \o <<"2", "3", ".", "4", " ">> \o Ms, "time", PyFloat(23400)),
      SampleLine(Pre \o TimeEq \o <<"5">> \o Ms \o <<" ", "T", "T", "L", "=", "6", "4">>,
                 "time", PyFloat(5000)),
      SampleLine(TimeEq \o <<" ", "8", " ", "M", "S">>, "time", PyFloat(8000)),
      SampleLine(Pre \o TiempoEq \o <<"1", "5", " ">> \o Ms, "tiempo", PyFloat(15000)),
      SampleLine(Pre \o TiempoEq \o <<"2", ".", "5">> \o Ms, "tiempo", PyFloat(2500)),
      SampleLine(<<"t", "i", "m", "e", "d", " ", "o", "u", "t">>, "none", PyNone),
      SampleLine(<<>>, "none", PyNone),
      SampleLine(Pre \o <<"t", "i", "m", "e", "<", "1">> \o Ms, "other", PyNone),
      SampleLine(Pre \o <<"T", "I", "M", "E", "=", "7", " ">> \o Ms, "other", PyNone),
      SampleLine(TimeEq \o Ms, "other", PyNone),
      SampleLine(TimeEq \o <<"3", " ", "s">>, "other", PyNone) }

\* the lines joined by "\n", as the ping utility prints them
RECURSIVE JoinLines(_)
JoinLines(lines) ==
    IF lines = <<>> THEN <<>>
    ELSE IF Len(lines) = 1 THEN lines[1].chars
    ELSE lines[1].chars \o <<"\n">> \o JoinLines(Tail(lines))

PingTexts == SeqsUpTo(PingLines, MaxLines)

ErrLine == SampleLine(<<"u", "n", "k", "n", "o", "w", "n", " ", "h", "o", "s", "t">>,
                      "none", PyNone)

\* what subprocess.run can do; lines describes stdout
PingRuns(Texts) ==
    [kind : {"exit"}, returncode : 0..2, lines : Texts, stderr : {<<>>, ErrLine.chars}]
    \cup [kind : {"timeout"}, returncode : {0}, lines : Texts, stderr : {<<>>}]
    \cup [kind : {"oserror"}, returncode : {0}, lines : {<<>>}, stderr : {<<>>}]

Run(r) == [kind |-> r.kind, returncode |-> r.returncode,
           stdout |-> JoinLines(r.lines), stderr |-> r.stderr]

Hosts == {"10.0.0.1", "10.0.0.2"}

(***************************************************************************)
(* Initial values.                                                         *)
(***************************************************************************)
NoReq   == [route |-> "none"]
NoResp  == [status |-> 0, body |-> [none |-> TRUE]]
NoIO    == [connects |-> 0, opened |-> 0, closed |-> 0, discCalls |-> 0, pings |-> 0,
            calls |-> <<>>]
NoCrud  == [op |-> "none"]
NoProbe == [op |-> "none"]
NoThreads == <<>>

Init ==
    /\ file \in InitFiles
    /\ session = [c \in Clients |-> {}]
    /\ req = NoReq
    /\ resp = NoResp
    /\ io = NoIO
    /\ crud = NoCrud
    /\ probe = NoProbe
    /\ threads = NoThreads

(***************************************************************************)
(* The reachability prober called directly: the call is drawn initially,   *)
(* the action makes it.                                                    *)
(***************************************************************************)
ProbeCalls ==
    [op : {"ping_device"}, host : Hosts, run : PingRuns(PingTexts), lines : {<<>>},
     called : {FALSE}, result : {PyNone}]
    \cup [op : {"extract_response_time"}, host : {NoneVal}, run : {PyNone},
          lines : PingTexts, called : {FALSE}, result : {PyNone}]

ProbeHost ==
    /\ probe.op = "ping_device" /\ ~probe.called
    /\ probe' = [probe EXCEPT !.called = TRUE,
                              !.result = ping_device(probe.host, Run(probe.run))]
    /\ UNCHANGED <<file, session, req, resp, io, crud, threads>>

ParseTime ==
    /\ probe.op = "extract_response_time" /\ ~probe.called
    /\ probe' = [probe EXCEPT !.called = TRUE,
                              !.result = extract_response_time(JoinLines(probe.lines))]
    /\ UNCHANGED <<file, session, req, resp, io, crud, threads>>

InitProbe ==
    /\ file = FileOf(<<R1, R2>>)
    /\ session = [c \in Clients |-> {}]
    /\ req = NoReq
    /\ resp = NoResp
    /\ io = NoIO
    /\ crud = NoCrud
    /\ probe \in ProbeCalls
    /\ threads = NoThreads

NextProbe == ProbeHost \/ ParseTime
SpecProbe == InitProbe /\ [][NextProbe]_vars

(***************************************************************************)
(* The transport.  What the devices do during one request is the record    *)
(* env, drawn with the request:                                            *)
(*   connect  how ConnectHandler ends: "ok" or the exception it raises     *)
(*   fault    the position, among the calls the handler makes on the open  *)
(*            connection, of the first one that raises; 0 when none does   *)
(*   disc     which calls of connection.disconnect() raise: the first, the *)
(*            second                                                       *)
(*   write    whether the backup file can be written                       *)
(* io counts what the handler did: connects (ConnectHandler calls), opened *)
(* (those that returned a connection), discCalls (disconnect() calls),     *)
(* closed (those that returned), pings (ping_device calls), and calls, the *)
(* calls made on the connection in order.                                  *)
(***************************************************************************)
ConnectOutcomes ==
    {"ok", "NetmikoTimeoutException", "NetmikoAuthenticationException", "Exception"}

connect_to_device(device_info, outcome) ==
    CASE outcome = "ok" -> [connection |-> TRUE, error |-> NoneVal]
      [] outcome = "NetmikoTimeoutException" ->
            [connection |-> FALSE, error |-> "Timeout - No se pudo conectar al dispositivo"]
      [] outcome = "NetmikoAuthenticationException" ->
            [connection |-> FALSE, error |-> "Error de autenticacion"]
      [] OTHER -> [connection |-> FALSE, error |-> "Error de conexion"]

IO(connects, opened, closed, discCalls, calls) ==
    [connects |-> connects, opened |-> opened, closed |-> closed,
     discCalls |-> discCalls, pings |-> 0, calls |-> calls]

Reply(status, body, effects) == [status |-> status, body |-> body, io |-> effects]

Error(msg) == [error |-> msg]
Unhandled(exc) == [unhandled |-> exc]

\* the text a device answers a command with
Output(command) == <<"output", command>>

Raises(calls, fault) == fault \in 1..Len(calls)
CallsMade(calls, fault) == IF Raises(calls, fault) THEN SubSeq(calls, 1, fault) ELSE calls

(***************************************************************************)
(* The session gate and the device lookup every admin route starts with.   *)
(***************************************************************************)
\* a gate that only turns away a session of another role
denied_role_only(s) == SessionHas(s, "username") /\ SessionGet(s, "role") # "admin"

\* 'username' not in session or session['role'] != 'admin'
denied(s) == ~SessionHas(s, "username") \/ SessionGet(s, "role") # "admin"

\* next((d for d in devices if d['name'] == device_name), None): its index, 0 for None
find_device(devices, device_name) == FirstIndex(devices, "name", device_name)

\* Check of the session, load_devices(), lookup by name: either the reply the
\* handler returns at once, or the device it goes on with.
Stop(reply)  == [stop |-> TRUE,  reply |-> reply,  device |-> PyNone]
GoOn(device) == [stop |-> FALSE, reply |-> PyNone, device |-> device]

Gate(s, f, device_name) ==
    IF denied(s) THEN Stop(Reply(403, Error("Acceso denegado"), NoIO))
    ELSE LET loaded == load_devices(f) IN
         IF loaded.raised # NoneVal
         THEN Stop(Reply(500, Unhandled(loaded.raised), NoIO))
         ELSE LET i == find_device(loaded.value, device_name) IN
              IF i = 0 THEN Stop(Reply(404, Error("Dispositivo no encontrado"), NoIO))
              ELSE GoOn(loaded.value[i])

\* connection, error = connect_to_device(device); if error: return 500
Connect(device, env, rest) ==
    LET c == connect_to_device(device, env.connect) IN
    IF c.error # NoneVal THEN Reply(500, Error(c.error), IO(1, 0, 0, 0, <<>>))
    ELSE rest

\* try: <calls>; connection.disconnect(); return 200
\* except Exception: connection.disconnect(); return 500
TryThenDisconnect(calls, env, okBody, errMsg) ==
    LET made == CallsMade(calls, env.fault) IN
    IF Raises(calls, env.fault)
    THEN IF 1 \in env.disc
         THEN Reply(500, Unhandled("Exception"), IO(1, 1, 0, 1, made))
         ELSE Reply(500, Error(errMsg), IO(1, 1, 1, 1, made))
    ELSE IF 1 \in env.disc
         THEN IF 2 \in env.disc
              THEN Reply(500, Unhandled("Exception"), IO(1, 1, 0, 2, made))
              ELSE Reply(500, Error(errMsg), IO(1, 1, 1, 2, made))
         ELSE Reply(200, okBody, IO(1, 1, 1, 1, made))

(***************************************************************************)
(* Authentication routes.  Each returns the reply and the session after.   *)
(***************************************************************************)
\* a login that does not compare the password
login_any_password(s, username, password) ==
    IF InUSERS(username)
    THEN [reply |-> Reply(200, [success |-> TRUE, role |-> USERSof(username).role,
                                username |-> username], NoIO),
          session |-> SessionSet(SessionSet(s, "username", username),
                                 "role", USERSof(username).role)]
    ELSE [reply |-> Reply(200, [success |-> FALSE,
                                message |-> "Usuario o contrasena incorrectos"], NoIO),
          session |-> s]

login(s, username, password) ==
    IF InUSERS(username) /\ USERSof(username).password = password
    THEN [reply |-> Reply(200, [success |-> TRUE, role |-> USERSof(username).role,
                                username |-> username], NoIO),
          session |-> SessionSet(SessionSet(s, "username", username),
                                 "role", USERSof(username).role)]
    ELSE [reply |-> Reply(200, [success |-> FALSE,
                                message |-> "Usuario o contrasena incorrectos"], NoIO),
          session |-> s]

\* a logout that leaves the session in place
logout_keeps_session(s) == [reply |-> Reply(200, [success |-> TRUE], NoIO), session |-> s]

logout(s) == [reply |-> Reply(200, [success |-> TRUE], NoIO), session |-> {}]

check_auth(s) ==
    IF SessionHas(s, "username")
    THEN Reply(200, [authenticated |-> TRUE, username |-> SessionGet(s, "username"),
                     role |-> SessionGet(s, "role")], NoIO)
    ELSE Reply(200, [authenticated |-> FALSE], NoIO)

(***************************************************************************)
(* /ping and /devices.                                                     *)
(***************************************************************************)
PingEntry(device, run) ==
    [name |-> device.name, host |-> device.host, result |-> ping_device(device.host, run)]

\* runs[i] is what the ping process does at the i-th call of ping_device
ping_routers(s, f, method, target, runs) ==
    IF ~SessionHas(s, "username") THEN Reply(401, Error("No autenticado"), NoIO)
    ELSE LET loaded == load_devices(f)
             devices == loaded.value
         IN
         IF loaded.raised # NoneVal THEN Reply(500, Unhandled(loaded.raised), NoIO)
         ELSE IF method = "GET"
         THEN Reply(200, [devices |-> [i \in 1..Len(devices) |->
                             [name |-> devices[i].name, host |-> devices[i].host,
                              status |-> "unknown"]]], NoIO)
         ELSE IF target = "all"
         THEN Reply(200, [results |-> [i \in 1..Len(devices) |->
                                          PingEntry(devices[i], runs[i])]],
                    [NoIO EXCEPT !.pings = Len(devices)])
         ELSE LET i == find_device(devices, target) IN
              IF i # 0
              THEN Reply(200, [results |-> <<PingEntry(devices[i], runs[1])>>],
                         [NoIO EXCEPT !.pings = 1])
              ELSE Reply(404, Error("Dispositivo no encontrado"), NoIO)

get_devices(s, f) ==
    IF ~SessionHas(s, "username") THEN Reply(401, Error("No autenticado"), NoIO)
    ELSE LET loaded == load_devices(f)
             devices == loaded.value
         IN
         IF loaded.raised # NoneVal THEN Reply(500, Unhandled(loaded.raised), NoIO)
         ELSE Reply(200, [devices |-> [i \in 1..Len(devices) |->
                             [name |-> devices[i].name, host |-> devices[i].host,
                              device_type |-> devices[i].device_type]]], NoIO)

(***************************************************************************)
(* Monitoring routes: one command on one session.                          *)
(***************************************************************************)
Monitoring(s, f, device_name, env, command, key, errMsg) ==
    LET g == Gate(s, f, device_name) IN
    IF g.stop THEN g.reply
    ELSE
        Connect(g.device, env,
            TryThenDisconnect(<<command>>, env,
                [success |-> TRUE, device |-> device_name, key |-> key,
                 text |-> Output(command)],
                errMsg))

get_device_config(s, f, device_name, env) ==
    Monitoring(s, f, device_name, env, "show running-config", "config",
               "Error al obtener configuracion")

get_interfaces(s, f, device_name, env) ==
    Monitoring(s, f, device_name, env, "show ip interface brief", "interfaces",
               "Error al obtener interfaces")

get_cdp_neighbors(s, f, device_name, env) ==
    Monitoring(s, f, device_name, env, "show cdp neighbors detail", "cdp_neighbors",
               "Error al obtener vecinos CDP")

get_interface_traffic(s, f, device_name, env) ==
    Monitoring(s, f, device_name, env, "show interfaces", "traffic_info",
               "Error al obtener trafico")


(***************************************************************************)
(* Maintenance routes.                                                     *)
(***************************************************************************)
simulate_patch(s, f, device_name) ==
    LET g == Gate(s, f, device_name) IN
    IF g.stop THEN g.reply
    ELSE
        Reply(200, [success |-> TRUE, device |-> device_name,
                    status |-> "completed"], NoIO)

\* A template is what yaml.safe_load makes of template_content:
\*   yamlerror   safe_load raises yaml.YAMLError
\*   none        an empty text: safe_load returns None
\*   nocommands  a mapping without the key commands
\*   scalar      commands holds a number, which cannot be iterated
\*   list        commands holds the sequence commands
\* A command is [str |-> whether it is a string, words |-> its words].
Template(kind, commands) == [kind |-> kind, commands |-> commands]

ShowVersion  == [str |-> TRUE,  words |-> <<"show", "version">>]
ConfigureT   == [str |-> TRUE,  words |-> <<"configure", "terminal">>]
NotAString   == [str |-> FALSE, words |-> <<"7">>]

\* command.startswith('configure')
StartsWithConfigure(command) == command.words # <<>> /\ Head(command.words) = "configure"

\* The body of the loop over yaml_data['commands'] for one command: fault says
\* what raises while it runs: "none", "enable" (connection.enable()) or "send"
\* (connection.send_command).  Gives the entry appended to results and the
\* calls made on the connection.
LoopBody(command, fault) ==
    LET Ok(made) ==
            [entry |-> [command |-> command, output |-> Output(command.words),
                        status |-> "success"],
             calls |-> made]
        Failed(text, made) ==
            [entry |-> [command |-> command, output |-> text, status |-> "error"],
             calls |-> made]
    IN IF ~command.str THEN Failed("AttributeError", <<>>)
       ELSE IF StartsWithConfigure(command)
       THEN IF fault = "enable" THEN Failed("enable failed", <<"enable">>)
            ELSE IF fault = "send"
            THEN Failed("send failed", <<"enable", command.words>>)
            ELSE Ok(<<"enable", command.words>>)
       ELSE IF fault = "send" THEN Failed("send failed", <<command.words>>)
            ELSE Ok(<<command.words>>)

\* a loop that stops at the first command that raises
RECURSIVE RunCommandsUntilError(_, _, _, _)
RunCommandsUntilError(commands, faults, results, calls) ==
    IF commands = <<>> THEN [results |-> results, calls |-> calls]
    ELSE LET one == LoopBody(Head(commands), Head(faults)) IN
         IF one.entry.status = "error"
         THEN [results |-> Append(results, one.entry), calls |-> calls \o one.calls]
         ELSE RunCommandsUntilError(Tail(commands), Tail(faults),
                                    Append(results, one.entry), calls \o one.calls)

\* for command in yaml_data['commands']: the results and the calls made
RECURSIVE RunCommands(_, _, _, _)
RunCommands(commands, faults, results, calls) ==
    IF commands = <<>> THEN [results |-> results, calls |-> calls]
    ELSE LET one == LoopBody(Head(commands), Head(faults)) IN
         RunCommands(Tail(commands), Tail(faults),
                     Append(results, one.entry), calls \o one.calls)

apply_yaml_template(s, f, device_name, template, env) ==
    LET g == Gate(s, f, device_name) IN
    IF g.stop THEN g.reply
    ELSE
        CASE template.kind = "yamlerror" ->
                Reply(400, Error("Error en formato YAML"), NoIO)
          [] template.kind = "none" ->          \* 'commands' not in None
                Reply(500, Error("Error al aplicar template"), NoIO)
          [] template.kind = "nocommands" ->
                Reply(400, Error("Template debe contener una seccion commands"), NoIO)
          [] template.kind = "scalar" ->        \* for command in 5
                Connect(g.device, env,
                    Reply(500, Error("Error al aplicar template"),
                          IO(1, 1, 0, 0, <<>>)))
          [] template.kind = "list" ->
                Connect(g.device, env,
                    LET run == RunCommands(template.commands, env.cmdFaults,
                                           <<>>, <<>>)
                    IN IF 1 \in env.disc
                       THEN Reply(500, Error("Error al aplicar template"),
                                  IO(1, 1, 0, 1, run.calls))
                       ELSE Reply(200, [success |-> TRUE, device |-> device_name,
                                        results |-> run.results],
                                  IO(1, 1, 1, 1, run.calls)))

maintenance_backup(s, f, device_name, env) ==
    LET calls == <<"enable", "show running-config">>
        made == CallsMade(calls, env.fault)
        g == Gate(s, f, device_name)
    IN IF g.stop THEN g.reply
       ELSE
            Connect(g.device, env,
                IF Raises(calls, env.fault)
                THEN Reply(500, Error("Error al realizar backup"), IO(1, 1, 0, 0, made))
                ELSE IF 1 \in env.disc
                THEN Reply(500, Error("Error al realizar backup"), IO(1, 1, 0, 1, made))
                ELSE IF ~env.write                  \* open(filename, 'w') raises
                THEN Reply(500, Error("Error al realizar backup"), IO(1, 1, 1, 1, made))
                ELSE Reply(200, [success |-> TRUE,
                                 message |-> "Backup realizado correctamente"],
                           IO(1, 1, 1, 1, made)))

(***************************************************************************)
(* Security routes.                                                        *)
(***************************************************************************)
change_device_password(s, f, device_name, env) ==
    LET g == Gate(s, f, device_name) IN
    IF g.stop THEN g.reply
    ELSE
        Connect(g.device, env,
            TryThenDisconnect(<<"enable", "send_config_set", "write memory">>, env,
                [success |-> TRUE, device |-> device_name,
                 message |-> "Contrasena cambiada exitosamente"],
                "Error al cambiar contrasena"))

manage_users(s, f, device_name, user_action, env) ==
    LET g == Gate(s, f, device_name) IN
    IF g.stop THEN g.reply
    ELSE
        Connect(g.device, env,
            IF user_action \in {"add", "remove"}
            THEN TryThenDisconnect(<<"enable", "send_config_set">>, env,
                     [success |-> TRUE,
                      message |-> IF user_action = "add"
                                  THEN "Usuario agregado correctamente"
                                  ELSE "Usuario eliminado correctamente"],
                     "Error al gestionar usuarios")
            ELSE IF Raises(<<"enable">>, env.fault)
            THEN TryThenDisconnect(<<"enable">>, env, [success |-> TRUE],
                     "Error al gestionar usuarios")
            ELSE Reply(400, Error("Accion no valida"), IO(1, 1, 0, 0, <<"enable">>)))

configure_acls(s, f, device_name, env) ==
    LET g == Gate(s, f, device_name) IN
    IF g.stop THEN g.reply
    ELSE
        Connect(g.device, env,
            TryThenDisconnect(<<"enable", "send_config_set">>, env,
                [success |-> TRUE, message |-> "ACLs configuradas correctamente"],
                "Error al configurar ACLs"))

security_audit(s, f, device_name, env) ==
    LET g == Gate(s, f, device_name) IN
    IF g.stop THEN g.reply
    ELSE
        Connect(g.device, env,
            TryThenDisconnect(<<"enable", "show running-config", "show users",
                                "show privilege">>, env,
                [success |-> TRUE, message |-> "Auditoria de seguridad realizada"],
                "Error al realizar auditoria"))


(***************************************************************************)
(* The requests.  Each action is one request of client c served whole: it  *)
(* draws the request data and what the devices do, runs the handler, and   *)
(* records the request, the response and the I/O performed.  The request   *)
(* record keeps only what the handler got to read: the body when the       *)
(* session gate let the request through (request.get_json() comes after    *)
(* it), env when a connection was attempted, runs for the pings made.      *)
(***************************************************************************)
DeviceNames == {"R1", "R9"}

NoData == [none |-> TRUE]

NoEnv == [connect |-> NoneVal, fault |-> 0, disc |-> {}, write |-> TRUE,
          cmdFaults |-> <<>>]

\* the devices' behaviours for a handler making n calls and up to d disconnects
Envs(n, d) ==
    [connect : ConnectOutcomes \ {"ok"}, fault : {0}, disc : {{}}, write : {TRUE},
     cmdFaults : {<<>>}]
    \cup [connect : {"ok"}, fault : 0..n, disc : SUBSET (1..d), write : {TRUE},
          cmdFaults : {<<>>}]

CmdRuns ==
    { <<ShowVersion, "none">>, <<ShowVersion, "send">>,
      <<ConfigureT, "none">>, <<ConfigureT, "enable">>, <<ConfigureT, "send">>,
      <<NotAString, "none">> }

SmallRuns ==
    LET english == CHOOSE l \in PingLines : l.n = PyFloat(23400) IN
    { [kind |-> "exit", returncode |-> 0, lines |-> <<english>>, stderr |-> <<>>],
      [kind |-> "exit", returncode |-> 1, lines |-> <<>>, stderr |-> ErrLine.chars],
      [kind |-> "timeout", returncode |-> 0, lines |-> <<english>>, stderr |-> <<>>] }

Serve(c, route, data, env, out, s2) ==
    /\ req' = [client |-> c, route |-> route,
               data |-> IF out.status \in {401, 403} THEN NoData ELSE data,
               env |-> IF out.io.connects > 0 THEN env ELSE NoEnv]
    /\ resp' = [status |-> out.status, body |-> out.body]
    /\ io' = out.io
    /\ session' = [session EXCEPT ![c] = s2]
    /\ UNCHANGED <<file, crud, probe, threads>>

Login(c) ==
    \E username \in Usernames, password \in Passwords :
        LET r == login(session[c], username, password) IN
        Serve(c, "login", [username |-> username, password |-> password], NoEnv,
              r.reply, r.session)

Logout(c) ==
    LET r == logout(session[c]) IN
    Serve(c, "logout", NoData, NoEnv, r.reply, r.session)

CheckAuth(c) ==
    Serve(c, "check_auth", NoData, NoEnv, check_auth(session[c]), session[c])

PingRouters(c) ==
    \E method \in {"GET", "POST"}, target \in {"all", "R1", "R9"},
       runs \in [1..Len(file.devices) -> SmallRuns] :
        LET out == ping_routers(session[c], file, method, target,
                                [i \in 1..Len(runs) |-> Run(runs[i])])
        IN Serve(c, "ping",
                 [method |-> method,
                  target |-> IF method = "POST" THEN target ELSE NoneVal,
                  runs |-> SubSeq(runs, 1, out.io.pings)],
                 NoEnv, out, session[c])

GetDevices(c) ==
    Serve(c, "devices", NoData, NoEnv, get_devices(session[c], file), session[c])

GetDeviceConfig(c) ==
    \E name \in DeviceNames, env \in Envs(1, 2) :
        Serve(c, "monitoring/config", [device_name |-> name], env,
              get_device_config(session[c], file, name, env), session[c])

GetInterfaces(c) ==
    \E name \in DeviceNames, env \in Envs(1, 2) :
        Serve(c, "monitoring/interfaces", [device_name |-> name], env,
              get_interfaces(session[c], file, name, env), session[c])

GetCdpNeighbors(c) ==
    \E name \in DeviceNames, env \in Envs(1, 2) :
        Serve(c, "monitoring/cdp", [device_name |-> name], env,
              get_cdp_neighbors(session[c], file, name, env), session[c])

GetInterfaceTraffic(c) ==
    \E name \in DeviceNames, env \in Envs(1, 2) :
        Serve(c, "monitoring/traffic", [device_name |-> name], env,
              get_interface_traffic(session[c], file, name, env), session[c])

SimulatePatch(c) ==
    \E name \in DeviceNames :
        Serve(c, "maintenance/patch_simulation", [device_name |-> name], NoEnv,
              simulate_patch(session[c], file, name), session[c])

ApplyTemplate(c) ==
    \E name \in DeviceNames :
        \/ \E kind \in {"yamlerror", "none", "nocommands", "scalar"},
              env \in Envs(0, 0) :
               Serve(c, "maintenance/apply_template",
                     [device_name |-> name, template |-> Template(kind, <<>>)], env,
                     apply_yaml_template(session[c], file, name,
                                         Template(kind, <<>>), env),
                     session[c])
        \/ \E command \in {ShowVersion, ConfigureT},
              connect \in ConnectOutcomes \ {"ok"} :
               LET template == Template("list", <<command>>)
                   env == [NoEnv EXCEPT !.connect = connect]
               IN Serve(c, "maintenance/apply_template",
                        [device_name |-> name, template |-> template], env,
                        apply_yaml_template(session[c], file, name, template, env),
                        session[c])
        \/ \E runs \in SeqsUpTo(CmdRuns, MaxCmds), disc \in SUBSET {1} :
               LET template == Template("list", [j \in 1..Len(runs) |-> runs[j][1]])
                   env == [NoEnv EXCEPT !.connect = "ok", !.disc = disc,
                               !.cmdFaults = [j \in 1..Len(runs) |-> runs[j][2]]]
               IN Serve(c, "maintenance/apply_template",
                        [device_name |-> name, template |-> template], env,
                        apply_yaml_template(session[c], file, name, template, env),
                        session[c])

MaintenanceBackup(c) ==
    \E name \in DeviceNames, e \in Envs(2, 1), write \in BOOLEAN :
        LET env == [e EXCEPT !.write = write] IN
        Serve(c, "maintenance/backup", [device_name |-> name], env,
              maintenance_backup(session[c], file, name, env), session[c])

ChangeDevicePassword(c) ==
    \E name \in DeviceNames, env \in Envs(3, 2) :
        Serve(c, "security/change_password", [device_name |-> name], env,
              change_device_password(session[c], file, name, env), session[c])

ManageUsers(c) ==
    \E name \in DeviceNames, action \in {"add", "remove", "rename", NoneVal},
       env \in Envs(2, 2) :
        Serve(c, "security/manage_users", [device_name |-> name, action |-> action],
              env, manage_users(session[c], file, name, action, env), session[c])

ConfigureAcls(c) ==
    \E name \in DeviceNames, env \in Envs(2, 2) :
        Serve(c, "security/configure_acls", [device_name |-> name], env,
              configure_acls(session[c], file, name, env), session[c])

SecurityAudit(c) ==
    \E name \in DeviceNames, env \in Envs(4, 2) :
        Serve(c, "security/audit", [device_name |-> name], env,
              security_audit(session[c], file, name, env), session[c])

Next ==
    \E c \in Clients :
        \/ Login(c)
        \/ Logout(c)
        \/ CheckAuth(c)
        \/ PingRouters(c)
        \/ GetDevices(c)
        \/ GetDeviceConfig(c)
        \/ GetInterfaces(c)
        \/ GetCdpNeighbors(c)
        \/ GetInterfaceTraffic(c)
        \/ SimulatePatch(c)
        \/ ApplyTemplate(c)
        \/ MaintenanceBackup(c)
        \/ ChangeDevicePassword(c)
        \/ ManageUsers(c)
        \/ ConfigureAcls(c)
        \/ SecurityAudit(c)

Spec == Init /\ [][Next]_vars


(***************************************************************************)
(* The GraphQL inventory CRUD of graphql_schema.py.                        *)
(***************************************************************************)
DeviceInput(name, host, username, password, secret, device_type) ==
    [name |-> name, host |-> host, username |-> username, password |-> password,
     secret |-> secret, device_type |-> device_type]

DeviceInputs ==
    { DeviceInput("R7", "10.0.0.7", "ops", "pw7", "en7", "cisco_nxos"),
      DeviceInput("R1", "10.0.0.8", "net", "pw8", "en8", "cisco_asa") }

Ids == 1..MaxId

\* The hostname push: what the call did to the transport and how it ended.
\*   raised    the exception that left the call, NoneVal when it returned
\*   output    the text returned, <<>> when the call raised or was not made
\*   host      the address handed to ConnectHandler, NoneVal when none was
Push(raised, output, host, connects, opened, closed, calls) ==
    [raised |-> raised, output |-> output, host |-> host, connects |-> connects,
     opened |-> opened, closed |-> closed, calls |-> calls]

\* netmiko_config.py configure_device, the body of its try.  The arguments
\* of ConnectHandler are evaluated before the call, and device["ip"] raises
\* KeyError for a record without the key ip.
try_configure(device, commands, env) ==
    IF "ip" \notin DOMAIN device
    THEN Push("KeyError", <<>>, NoneVal, 0, 0, 0, <<>>)
    ELSE IF env.connect # "ok"
    THEN Push(env.connect, <<>>, device.ip, 1, 0, 0, <<>>)
    ELSE LET calls == <<<<"send_config_set", commands>>, <<"save_config">>>>
             made == CallsMade(calls, env.fault)
         IN IF Raises(calls, env.fault)
            THEN Push("Exception", <<>>, device.ip, 1, 1, 0, made)
            ELSE IF 1 \in env.disc
            THEN Push("Exception", <<>>, device.ip, 1, 1, 0, made)
            ELSE Push(NoneVal, Output(commands), device.ip, 1, 1, 1, made)

\* configure_device without its except clause
configure_device_uncaught(device, commands, env) ==
    try_configure(device, commands, env)

\* netmiko_config.py configure_device: except Exception turns every fault of
\* the try into the returned text "Error configurando <name>: <fault>".
configure_device(device, commands, env) ==
    LET t == try_configure(device, commands, env) IN
    IF t.raised # NoneVal
    THEN [t EXCEPT !.raised = NoneVal,
                   !.output = <<"Error configurando", device.name, t.raised>>]
    ELSE t

\* graphql_schema.py Device: the fields of the object type.  Device(**dev)
\* raises TypeError for a key that is not a field of the type.
DeviceFields ==
    {"id", "name", "host", "username", "password", "secret", "device_type"}

Device(dev) ==
    IF DOMAIN dev \subseteq DeviceFields THEN Returned(dev) ELSE Raised("TypeError")

\* Query.resolve_devices
resolve_devices(f) ==
    LET loaded == netmiko_load_devices(f) IN
    IF loaded.raised # NoneVal THEN loaded
    ELSE IF \E i \in 1..Len(loaded.value) : Device(loaded.value[i]).raised # NoneVal
    THEN Raised("TypeError")
    ELSE loaded

\* Query.resolve_device_by_id
resolve_device_by_id(f, id) ==
    LET loaded == netmiko_load_devices(f)
        i == FirstIndex(loaded.value, "id", id)
    IN IF loaded.raised # NoneVal THEN loaded
       ELSE IF i # 0 THEN Device(loaded.value[i]) ELSE Returned(PyNone)

NoPush == Push(NoneVal, <<>>, NoneVal, 0, 0, 0, <<>>)

Mutated(f, result, push) == [file |-> f, result |-> result, push |-> push]

\* an identifier taken from the length of the inventory
NewIdFromLength(devices) == Len(devices) + 1

\* an identifier taken from the last record of the inventory
NewIdFromLast(devices) ==
    IF devices # <<>> THEN devices[Len(devices)].id + 1 ELSE 1

\* max([d["id"] for d in devices]) + 1 if devices else 1
NewId(devices) ==
    IF devices # <<>> THEN Max({devices[i].id : i \in 1..Len(devices)}) + 1 ELSE 1

\* what a mutation returns after its save and its hostname push: an
\* exception leaving configure_device would leave the mutation too
AfterPush(saved, device, push) ==
    IF push.raised # NoneVal THEN Mutated(saved, Raised(push.raised), push)
    ELSE Mutated(saved, Returned(device), push)

\* CreateDevice.mutate: the file after, what it returns, the hostname push
CreateDevice_mutate(f, device_data, env) ==
    LET loaded == netmiko_load_devices(f)
        devices == loaded.value
        new_device == Dev(NewId(devices), device_data.name, device_data.host,
                          device_data.username, device_data.password,
                          device_data.secret, device_data.device_type)
    IN IF loaded.raised # NoneVal THEN Mutated(f, loaded, NoPush)
       ELSE AfterPush(save_devices([devices |-> Append(devices, new_device)]),
                      new_device,
                      configure_device(new_device, <<"hostname", new_device.name>>, env))

\* UpdateDevice.mutate: the six fields of the input are assigned into the
\* loaded record, which keeps its id and any other key it holds
UpdateDevice_mutate(f, id, device_data, env) ==
    LET loaded == netmiko_load_devices(f)
        devices == loaded.value
        i == FirstIndex(devices, "id", id)
        dev == [devices[i] EXCEPT !.name = device_data.name,
                                  !.host = device_data.host,
                                  !.username = device_data.username,
                                  !.password = device_data.password,
                                  !.secret = device_data.secret,
                                  !.device_type = device_data.device_type]
    IN IF loaded.raised # NoneVal THEN Mutated(f, loaded, NoPush)
       ELSE IF i = 0 THEN Mutated(f, Returned(PyNone), NoPush)
       ELSE AfterPush(save_devices([devices |-> [devices EXCEPT ![i] = dev]]),
                      dev,
                      configure_device(dev, <<"hostname", dev.name>>, env))

\* the filter with its test inverted
WithoutIdInverted(devices, id) ==
    LET Keep(d) == d.id = id IN SelectSeq(devices, Keep)

\* [d for d in devices if d["id"] != id]
WithoutId(devices, id) ==
    LET Keep(d) == d.id # id IN SelectSeq(devices, Keep)

\* DeleteDevice.mutate
DeleteDevice_mutate(f, id) ==
    LET loaded == netmiko_load_devices(f) IN
    IF loaded.raised # NoneVal THEN Mutated(f, loaded, NoPush)
    ELSE Mutated(save_devices([devices |-> WithoutId(loaded.value, id)]),
                 Returned([ok |-> TRUE]), NoPush)

(***************************************************************************)
(* The GraphQL operations, one at a time.                                  *)
(***************************************************************************)
PushEnvs == Envs(2, 1)

Mutate(op, id, data, m) ==
    /\ file' = m.file
    /\ crud' = [op |-> op, id |-> id, data |-> data, result |-> m.result,
                push |-> m.push]
    /\ UNCHANGED <<session, req, resp, io, probe, threads>>

CreateDevice ==
    \E device_data \in DeviceInputs, env \in PushEnvs :
        /\ Len(file.devices) < MaxDevices
        /\ NewId(file.devices) <= MaxId
        /\ Mutate("createDevice", 0, device_data,
                  CreateDevice_mutate(file, device_data, env))

UpdateDevice ==
    \E id \in Ids, device_data \in DeviceInputs, env \in PushEnvs :
        Mutate("updateDevice", id, device_data,
               UpdateDevice_mutate(file, id, device_data, env))

DeleteDevice ==
    \E id \in Ids :
        Mutate("deleteDevice", id, NoData, DeleteDevice_mutate(file, id))

QueryDevices ==
    Mutate("devices", 0, NoData, Mutated(file, resolve_devices(file), NoPush))

QueryDeviceById ==
    \E id \in Ids :
        Mutate("deviceById", id, NoData,
               Mutated(file, resolve_device_by_id(file, id), NoPush))

NextCrud ==
    \/ CreateDevice
    \/ UpdateDevice
    \/ DeleteDevice
    \/ QueryDevices
    \/ QueryDeviceById

SpecCrud == Init /\ [][NextCrud]_vars

(***************************************************************************)
(* The same operations on an inventory written by hand that still carries  *)
(* the address of a record under the key ip, the key configure_device      *)
(* reads, beside the key host: the hostname push of an update of such a    *)
(* record reaches ConnectHandler.                                          *)
(***************************************************************************)
WithIp(dev) == [k \in DOMAIN dev \cup {"ip"} |-> IF k = "ip" THEN dev.host ELSE dev[k]]

PushFiles == {FileOf(<<WithIp(R1)>>), FileOf(<<R1, WithIp(R2)>>)}

InitPush ==
    /\ file \in PushFiles
    /\ session = [c \in Clients |-> {}]
    /\ req = NoReq
    /\ resp = NoResp
    /\ io = NoIO
    /\ crud = NoCrud
    /\ probe = NoProbe
    /\ threads = NoThreads

SpecPush == InitPush /\ [][NextCrud]_vars



(***************************************************************************)
(* The mutations run by two server threads at once.  A mutation touches    *)
(* the file three times: load_devices reads it, open(DEVICES_FILE, "w") in *)
(* save_devices truncates it, and the text yaml.dump produced reaches it   *)
(* when the with block closes the file (an inventory of MaxDevices records *)
(* is far below the 8 KiB buffer of the file object, so the text arrives   *)
(* in one write).  Nothing orders these steps of one thread with respect   *)
(* to those of another.                                                    *)
(***************************************************************************)
Threads == {"t1", "t2"}

\* The length of the text yaml.dump writes: "devices:\n" and, for each
\* record, its keys in sorted order, one "key: value\n" line each, the first
\* after "- " and the others after two spaces; "devices: []\n" for no record.
Digits(n) == IF n < 10 THEN 1 ELSE 2

RecLen(d) ==
    (15 + Len(d.device_type) + 1) + (8 + Len(d.host) + 1) + (6 + Digits(d.id) + 1)
    + (8 + Len(d.name) + 1) + (12 + Len(d.password) + 1) + (10 + Len(d.secret) + 1)
    + (12 + Len(d.username) + 1)
    + (IF "ip" \in DOMAIN d THEN 6 + Len(d.ip) + 1 ELSE 0)

RECURSIVE RecsLen(_)
RecsLen(devices) ==
    IF devices = <<>> THEN 0 ELSE RecLen(Head(devices)) + RecsLen(Tail(devices))

YamlLen(devices) == IF devices = <<>> THEN 12 ELSE 9 + RecsLen(devices)

\* What the file holds after the text of devices is written at offset 0 of
\* the file as another writer left it.  On the truncated file, and on a text
\* that is not longer, it is the text written.  A longer text keeps its tail:
\* when the text written ends where a record of the old text ends, the
\* records after that one follow those written; when it ends inside a record
\* the rest of that record follows the document and the file does not parse.
Overlay(old, devices) ==
    LET n == YamlLen(devices)
        Ends == {k \in 1..Len(old.devices) :
                     n = 9 + RecsLen(SubSeq(old.devices, 1, k))}
    IN CASE old.kind = "empty" -> FileOf(devices)
         [] old.kind = "devices" ->
                IF n >= YamlLen(old.devices) THEN FileOf(devices)
                ELSE IF devices # <<>> /\ Ends # {}
                THEN LET k == CHOOSE e \in Ends : TRUE
                     IN FileOf(devices
                               \o SubSeq(old.devices, k + 1, Len(old.devices)))
                ELSE FileUnparseable
         [] OTHER -> FileUnparseable

\* threads[t]:
\*   pc       idle, loaded (load_devices returned), opened (the file is open
\*            for writing), written (save_devices returned), done (returned)
\*   op, id, data   the mutation and its arguments
\*   loaded   what load_devices returned to it
\*   m        the document it saves, what it returns, its hostname push
\*   runs     the mutations it has started
\*   stale    history: it opened the file when the file no longer held what
\*            it had loaded, or wrote over the text of another writer
\*   removed  history: the identifiers its deleteDevice mutations have saved
Idle ==
    [pc |-> "idle", op |-> "none", id |-> 0, data |-> NoData, loaded |-> <<>>,
     m |-> Mutated(FileOf(<<>>), Returned(PyNone), NoPush),
     runs |-> 0, stale |-> FALSE, removed |-> {}]

ConcFiles == {FileOf(<<>>), FileOf(<<R1, R2>>)}

InitConc ==
    /\ file \in ConcFiles
    /\ session = [c \in Clients |-> {}]
    /\ req = NoReq
    /\ resp = NoResp
    /\ io = NoIO
    /\ crud = NoCrud
    /\ probe = NoProbe
    /\ threads = [t \in Threads |-> Idle]

\* the arguments of the concurrent mutations: one input, and the identifiers
\* of a record of the initial inventory and of the first record created
ConcInputs == {DeviceInput("R7", "10.0.0.7", "ops", "pw7", "en7", "cisco_nxos")}
ConcIds == {R1.id, NewId(<<R1, R2>>)}

RECURSIVE RunsOf(_)
RunsOf(T) ==
    IF T = {} THEN 0
    ELSE LET t == CHOOSE x \in T : TRUE IN threads[t].runs + RunsOf(T \ {t})

CanStart(t) == threads[t].pc \in {"idle", "done"} /\ RunsOf(Threads) < MaxRuns

\* the first statement of a mutation, devices = load_devices(), and the
\* statements up to its save_devices, which touch no shared state: m is the
\* mutation applied to what was loaded
Started(t, op, id, data, loaded, m) ==
    /\ threads' = [threads EXCEPT ![t] =
           [@ EXCEPT !.pc = IF loaded.raised # NoneVal \/ m.result = Returned(PyNone)
                            THEN "done" ELSE "loaded",
                     !.op = op, !.id = id, !.data = data,
                     !.loaded = loaded.value,
                     !.m = IF loaded.raised # NoneVal
                           THEN Mutated(FileOf(<<>>), loaded, NoPush) ELSE m,
                     !.runs = @ + 1]]
    /\ UNCHANGED <<file, session, req, resp, io, crud, probe>>

BeginCreate(t) ==
    \E device_data \in ConcInputs, env \in PushEnvs :
        LET loaded == netmiko_load_devices(file) IN
        /\ CanStart(t)
        /\ Len(loaded.value) < MaxDevices
        /\ NewId(loaded.value) <= MaxId
        /\ Started(t, "createDevice", 0, device_data, loaded,
                   CreateDevice_mutate(FileOf(loaded.value), device_data, env))

BeginUpdate(t) ==
    \E id \in ConcIds, device_data \in ConcInputs, env \in PushEnvs :
        LET loaded == netmiko_load_devices(file) IN
        /\ CanStart(t)
        /\ Started(t, "updateDevice", id, device_data, loaded,
                   UpdateDevice_mutate(FileOf(loaded.value), id, device_data, env))

BeginDelete(t) ==
    \E id \in ConcIds :
        LET loaded == netmiko_load_devices(file) IN
        /\ CanStart(t)
        /\ Started(t, "deleteDevice", id, NoData, loaded,
                   DeleteDevice_mutate(FileOf(loaded.value), id))

\* save_devices: open(DEVICES_FILE, "w") truncates the file
OpenForWrite(t) ==
    /\ threads[t].pc = "loaded"
    /\ file' = FileEmpty
    /\ threads' = [threads EXCEPT ![t] =
           [@ EXCEPT !.pc = "opened",
                     !.stale = @ \/ netmiko_load_devices(file)
                                        # Returned(threads[t].loaded)]]
    /\ UNCHANGED <<session, req, resp, io, crud, probe>>

\* save_devices: yaml.dump(devices, f) and the close of the file
WriteAndClose(t) ==
    /\ threads[t].pc = "opened"
    /\ file' = Overlay(file, threads[t].m.file.devices)
    /\ threads' = [threads EXCEPT ![t] =
           [@ EXCEPT !.pc = "written",
                     !.stale = @ \/ file.kind # "empty",
                     !.removed = IF threads[t].op = "deleteDevice"
                                 THEN @ \cup {threads[t].id} ELSE @]]
    /\ UNCHANGED <<session, req, resp, io, crud, probe>>

\* the statements after save_devices: the hostname push of a create or an
\* update, and the return
Finish(t) ==
    /\ threads[t].pc = "written"
    /\ threads' = [threads EXCEPT ![t] = [@ EXCEPT !.pc = "done"]]
    /\ UNCHANGED <<file, session, req, resp, io, crud, probe>>

NextConc ==
    \E t \in Threads :
        \/ BeginCreate(t)
        \/ BeginUpdate(t)
        \/ BeginDelete(t)
        \/ OpenForWrite(t)
        \/ WriteAndClose(t)
        \/ Finish(t)

SpecConc == InitConc /\ [][NextConc]_vars


(***************************************************************************)
(*                              The claims                                 *)
(***************************************************************************)
AdminRoutes ==
    {"monitoring/config", "monitoring/interfaces", "monitoring/cdp",
     "monitoring/traffic", "maintenance/patch_simulation",
     "maintenance/apply_template", "maintenance/backup",
     "security/change_password", "security/manage_users",
     "security/configure_acls", "security/audit"}

BusinessRoutes == AdminRoutes \cup {"ping", "devices"}

\* The session of the client of the last request.  No business route writes
\* the session, so after one this is also the session the request came with.
Sess == session[req.client]

LoggedIn == SessionHas(Sess, "username")
IsAdmin  == LoggedIn /\ SessionGet(Sess, "role") = "admin"

\* the names of the devices the inventory file holds
InventoryNames ==
    IF file.kind = "devices"
    THEN {file.devices[i].name : i \in 1..Len(file.devices)} ELSE {}

\* C1: every admin-only route answers 401 to a request without a session,
\* 403 to a session whose role is not admin, and 404 to an admin session
\* naming a device that is not in the inventory.
C1_AdminRouteStatus ==
    req.route \in AdminRoutes =>
        /\ ~LoggedIn => resp.status = 401
        /\ (LoggedIn /\ ~IsAdmin) => resp.status = 403
        /\ (IsAdmin /\ "device_name" \in DOMAIN req.data
                    /\ req.data.device_name \notin InventoryNames)
               => resp.status = 404

\* C2: login succeeds exactly for the pairs of the credential table, and then
\* the session holds that username and its role; for every other pair it
\* answers with one and the same failure body and leaves the session as it
\* was.
C2_Login ==
    [][ req'.route = "login" =>
          LET c == req'.client
              u == req'.data.username
              p == req'.data.password
              InTable == \E e \in USERS : e.username = u /\ e.password = p
              entry == CHOOSE e \in USERS : e.username = u /\ e.password = p
          IN IF InTable
             THEN /\ resp'.body = [success |-> TRUE, role |-> entry.role,
                                   username |-> u]
                  /\ session'[c] = {<<"username", u>>, <<"role", entry.role>>}
             ELSE /\ resp'.body = [success |-> FALSE,
                                   message |-> "Usuario o contrasena incorrectos"]
                  /\ resp'.status = 200
                  /\ session'[c] = session[c]
      ]_vars

\* the password of another user is refused and no session is created
C2_Witness ==
    /\ req.route = "login"
    /\ req.data.username = "admin" /\ req.data.password = "user123"
    /\ resp.body.success = FALSE
    /\ Sess = {}

\* C3: a request to a business route that carries no session is rejected
\* without any device I/O: no transport session is attempted and no ping
\* probe is run.
C3_NoSessionNoIO ==
    (req.route \in BusinessRoutes /\ ~LoggedIn) =>
        /\ resp.status \in {401, 403}
        /\ io.connects = 0
        /\ io.pings = 0

\* requests without a session to a route that would open a transport session
\* and to the ping route
C3_Witness ==
    /\ req.route \in {"security/change_password", "ping"}
    /\ ~LoggedIn
    /\ resp.status \in {401, 403}
    /\ io.connects = 0 /\ io.pings = 0

\* C4: a business operation that opens a transport session opens exactly one
\* and closes it before the route returns, on every path.
C4_SessionClosed ==
    (req.route \in BusinessRoutes /\ io.opened > 0) =>
        /\ io.opened = 1
        /\ io.discCalls >= 1

ListTemplateRun ==
    /\ req.route = "maintenance/apply_template"
    /\ resp.status \notin {401, 403}
    /\ req.data.template.kind = "list"
    /\ io.opened = 1

\* whether command j of the template raises, and the text of its error
CommandRaises(command, fault) ==
    \/ ~command.str
    \/ fault = "send"
    \/ fault = "enable" /\ Head(command.words) = "configure"

ErrorText(command, fault) ==
    IF ~command.str THEN "AttributeError"
    ELSE IF fault = "send" THEN "send failed" ELSE "enable failed"

\* the commands among calls, in order (the calls that are not enable())
CommandsSent(calls) == LET IsCommand(x) == x # "enable" IN SelectSeq(calls, IsCommand)

\* the commands the loop must hand to send_command: every string command
\* whose enable() did not raise
CommandsToSend(commands, faults) ==
    LET Idx == {j \in 1..Len(commands) :
                   commands[j].str /\
                   ~(faults[j] = "enable" /\ Head(commands[j].words) = "configure")}
        RECURSIVE Build(_)
        Build(j) == IF j > Len(commands) THEN <<>>
                    ELSE (IF j \in Idx THEN <<commands[j].words>> ELSE <<>>) \o Build(j + 1)
    IN Build(1)

EntriesMatch(commands, faults, results) ==
    /\ Len(results) = Len(commands)
    /\ \A j \in 1..Len(commands) :
           /\ results[j].command = commands[j]
           /\ IF CommandRaises(commands[j], faults[j])
              THEN /\ results[j].status = "error"
                   /\ results[j].output = ErrorText(commands[j], faults[j])
              ELSE results[j].status = "success"

\* C5 as stated: apply_template with n commands on a reachable device returns
\* n result entries in the order of the commands, error for a command that
\* raised and success for every other, and every command is run.
C5_TemplateResults ==
    ListTemplateRun =>
        /\ resp.status = 200
        /\ "results" \in DOMAIN resp.body
        /\ EntriesMatch(req.data.template.commands, req.env.cmdFaults,
                        resp.body.results)
        /\ CommandsSent(io.calls) =
               CommandsToSend(req.data.template.commands, req.env.cmdFaults)

\* C5 amended: the same, when closing the session does not raise; when it
\* does, every command has still been run and the answer is a 500 error
\* without results.
C5_TemplateResultsUnlessCloseFails ==
    ListTemplateRun =>
        /\ CommandsSent(io.calls) =
               CommandsToSend(req.data.template.commands, req.env.cmdFaults)
        /\ IF 1 \in req.env.disc
           THEN resp.status = 500 /\ "error" \in DOMAIN resp.body
           ELSE /\ resp.status = 200
                /\ EntriesMatch(req.data.template.commands, req.env.cmdFaults,
                                resp.body.results)

\* a template whose first command fails and whose second one succeeds
C5_Witness ==
    /\ ListTemplateRun
    /\ resp.status = 200
    /\ Len(resp.body.results) = 2
    /\ resp.body.results[1].status = "error"
    /\ resp.body.results[2].status = "success"
    /\ Len(io.calls) >= 2

ProbeCalled(op) == probe.op = op /\ probe.called

\* C6: ping_device maps the outcome of the ping process to the status: exit
\* code 0 gives success, a nonzero exit code gives error, expiry of the
\* 10 second timeout gives timeout whatever output was captured, and
\* response_time is None in every result whose status is not success.
C6_PingMapping ==
    ProbeCalled("ping_device") =>
        LET r == probe.run
            res == probe.result
        IN /\ (r.kind = "exit" /\ r.returncode = 0) => res.status = "success"
           /\ (r.kind = "exit" /\ r.returncode # 0) => res.status = "error"
           /\ r.kind = "timeout" => res.status = "timeout"
           /\ res.status # "success" => res.response_time = PyNone

\* a probe that timed out after printing a line with a time, reported as timeout
C6_Witness ==
    /\ ProbeCalled("ping_device")
    /\ probe.run.kind = "timeout"
    /\ \E i \in 1..Len(probe.run.lines) : probe.run.lines[i].marker = "time"
    /\ probe.result.status = "timeout"
    /\ probe.result.response_time = PyNone

\* the value the claim C7 gives for a ping output: n of the first line of the
\* form time=<n> ms or tiempo=<n> ms, no value when there is none
RECURSIVE FirstMarkedTime(_)
FirstMarkedTime(lines) ==
    IF lines = <<>> THEN PyNone
    ELSE IF Head(lines).marker \in {"time", "tiempo"} THEN Head(lines).n
    ELSE FirstMarkedTime(Tail(lines))

\* C7: extract_response_time is locale-tolerant: it returns n for the first
\* line "time=<n> ms" or "tiempo=<n> ms" of the output, and no value when no
\* line carries a time marker.
C7_LocaleTolerant ==
    ( /\ ProbeCalled("extract_response_time")
      /\ \A i \in 1..Len(probe.lines) : probe.lines[i].marker # "other" )
    => probe.result = FirstMarkedTime(probe.lines)

CrudReturned(op) == crud.op = op /\ crud.result.raised = NoneVal

\* C8: after createDevice returns a record with identifier i, deviceById(i)
\* returns that record field for field; after deleteDevice(i) the devices
\* query holds no record with identifier i and every other record as before.
C8_RoundTrip ==
    /\ [](CrudReturned("createDevice") =>
              /\ resolve_device_by_id(file, crud.result.value.id)
                     = Returned(crud.result.value)
              /\ \A k \in DOMAIN crud.data :
                     crud.result.value[k] = crud.data[k])
    /\ [][ (crud'.op = "deleteDevice" /\ crud'.result.raised = NoneVal) =>
             LET before == resolve_devices(file).value
                 after  == resolve_devices(file').value
                 Other(d) == d.id # crud'.id
             IN /\ resolve_devices(file').raised = NoneVal
                /\ \A j \in 1..Len(after) : after[j].id # crud'.id
                /\ after = SelectSeq(before, Other)
         ]_vars

\* a record created beside others and found again under its identifier
C8_Witness ==
    /\ CrudReturned("createDevice")
    /\ Len(file.devices) >= 2
    /\ crud.result.value.id > 1
    /\ resolve_device_by_id(file, crud.result.value.id) = Returned(crud.result.value)

\* the step is a logout, or a login that succeeded
EndsOrReplacesSession ==
    \/ req'.route = "logout"
    \/ req'.route = "login" /\ resp'.body.success

\* C9: a session lives from a successful login until a logout or another
\* successful login: no other request, a failed login included, changes it;
\* check_auth and every gated route treat the client as the session says;
\* after a logout the client has no session.
C9_SessionLifecycle ==
    /\ [][ \A c \in Clients :
             (session[c] # {} /\ ~EndsOrReplacesSession) => session'[c] = session[c]
         ]_vars
    /\ [](req.route = "check_auth" =>
              resp.body = IF LoggedIn
                          THEN [authenticated |-> TRUE,
                                username |-> SessionGet(Sess, "username"),
                                role |-> SessionGet(Sess, "role")]
                          ELSE [authenticated |-> FALSE])
    /\ [](req.route \in BusinessRoutes =>
              IF LoggedIn
              THEN /\ resp.status # 401
                   /\ resp.status = 403 <=> (req.route \in AdminRoutes /\ ~IsAdmin)
              ELSE resp.status \in {401, 403})
    /\ [](req.route = "logout" => Sess = {})

\* a login attempt that failed while the client was logged in, session kept
C9_Witness ==
    /\ req.route = "login"
    /\ resp.body.success = FALSE
    /\ Sess = {<<"username", "admin">>, <<"role", "admin">>}

\* C10: load() never raises: it returns the empty sequence when the file is
\* absent and when it is malformed (unparseable, an empty document, a
\* document without the key devices), in both stores.
C10_LoadNeverRaises ==
    file.kind \in {"absent", "unparseable", "empty", "nokey"} =>
        /\ load_devices(file) = Returned(<<>>)
        /\ netmiko_load_devices(file) = Returned(<<>>)

\* a createDevice, or an updateDevice of an identifier the inventory holds,
\* that got past its load
Changed == crud.op \in {"createDevice", "updateDevice"}
           /\ crud.result.raised = NoneVal
           /\ crud.result.value # PyNone

\* C11: every createDevice and every updateDevice of an existing identifier
\* persists the whole inventory and opens one transport session to the host
\* of the created/updated record, to which it pushes the single line
\* "hostname <name>"; deleteDevice persists the inventory and opens none.
C11_SaveThenPushHostname ==
    /\ Changed =>
          /\ file.kind = "devices"
          /\ \E i \in 1..Len(file.devices) : file.devices[i] = crud.result.value
          /\ crud.push.connects = 1
          /\ crud.push.host = crud.result.value.host
          /\ crud.push.opened = 1 =>
                crud.push.calls[1]
                    = <<"send_config_set", <<"hostname", crud.result.value.name>>>>
    /\ (crud.op = "deleteDevice" /\ crud.result.raised = NoneVal) =>
          /\ file.kind = "devices"
          /\ crud.push.connects = 0

\* the hostname push of the last mutation was made and did not complete
PushFailed ==
    \/ crud.push.raised # NoneVal
    \/ Len(crud.push.output) > 0 /\ crud.push.output[1] = "Error configurando"

\* C12: a failure of the hostname push (connection, authentication or
\* configure error) during createDevice or updateDevice neither rolls back
\* nor blocks the mutation: the file holds the inventory as loaded with the
\* created record appended, or the updated record in its place, and the
\* mutation returns that record, not an error.
C12_PushFailureKeepsMutation ==
    [][ (crud'.op \in {"createDevice", "updateDevice"} /\ PushFailed') =>
          LET before == netmiko_load_devices(file).value
              rec == crud'.result.value
          IN /\ crud'.result.raised = NoneVal
             /\ \A k \in DOMAIN crud'.data : rec[k] = crud'.data[k]
             /\ file'.kind = "devices"
             /\ IF crud'.op = "createDevice"
                THEN file'.devices = Append(before, rec)
                ELSE \E i \in 1..Len(before) :
                        /\ before[i].id = crud'.id
                        /\ rec.id = crud'.id
                        /\ file'.devices = [before EXCEPT ![i] = rec]
      ]_vars

\* an update whose push reached the device and was refused at authentication,
\* the updated record in the file
C12_Witness ==
    /\ crud.op = "updateDevice"
    /\ PushFailed
    /\ crud.push.connects = 1
    /\ crud.push.opened = 0
    /\ crud.push.output[3] = "NetmikoAuthenticationException"
    /\ crud.result = Returned(file.devices[Len(file.devices)])
    /\ crud.result.value.name = crud.data.name

\* the transport faults of the last request: the session could not be
\* opened, a call on the open session raised, a disconnect that was called
\* raised.  (A fault of one command of a template is recorded in its entry
\* of the results and is not among them.)
OpenFault  == req.env.connect # "ok"
CallFault  == req.env.fault \in 1..Len(io.calls)
CloseFault == \E k \in req.env.disc : k <= io.discCalls

\* C13: no transport fault escapes a route handler: on every device route a
\* failure to open the session, a fault raised while a command or config set
\* runs and a fault raised while the session is being closed are answered
\* with a JSON error envelope and status 500, never an unhandled exception.
C13_NoTransportFaultEscapes ==
    (req.route \in AdminRoutes /\ io.connects > 0) =>
        /\ "unhandled" \notin DOMAIN resp.body
        /\ (OpenFault \/ CallFault \/ CloseFault) =>
              /\ resp.status = 500
              /\ "error" \in DOMAIN resp.body

\* the createDevice of thread t returned a record, the file parses and holds
\* no record with its identifier, and no deleteDevice removed that identifier
LostCreate(t) ==
    /\ threads[t].pc = "done"
    /\ threads[t].op = "createDevice"
    /\ threads[t].m.result.raised = NoneVal
    /\ file.kind = "devices"
    /\ \A i \in 1..Len(file.devices) :
           file.devices[i].id # threads[t].m.result.value.id
    /\ \A u \in Threads : threads[t].m.result.value.id \notin threads[u].removed

\* C14: inventory mutations are not serialized.  The load and save steps of
\* two mutations interleave, the later save overwrites the earlier one, and a
\* device whose createDevice returned is absent from the inventory although
\* no deleteDevice removed it (the witness); such a loss comes from nothing
\* but the interleaving: some thread saved what it had loaded after the file
\* had changed under it, or wrote over the text of another writer.
C14_LostUpdateByInterleaving ==
    \A t \in Threads : LostCreate(t) => \E u \in Threads : threads[u].stale

\* t1 created a device and returned, its save not stale; t2, which had loaded
\* before that save, saved afterwards and returned; no delete has run and
\* the device t1 created is gone
C14_Witness ==
    /\ threads # NoThreads
    /\ LostCreate("t1")
    /\ ~threads["t1"].stale
    /\ threads["t1"].runs = 1
    /\ threads["t2"].pc = "done"
    /\ threads["t2"].op \in {"createDevice", "updateDevice"}
    /\ threads["t2"].runs = 1
    /\ threads["t2"].m.result.raised = NoneVal
    /\ threads["t2"].stale
    /\ threads["t2"].loaded = threads["t1"].loaded

\* the identifiers of the records of an inventory, in order
IdsOf(devices) == [i \in 1..Len(devices) |-> devices[i].id]

Distinct(ids) == \A i, j \in 1..Len(ids) : i # j => ids[i] # ids[j]

\* C15: the identifiers of the stored records are pairwise distinct after
\* any sequence of createDevice, updateDevice and deleteDevice run one at a
\* time from an inventory whose identifiers are distinct; createDevice
\* assigns the largest existing identifier plus one, or 1 to the first record
\* of an empty inventory; updateDevice changes no record's identifier.
C15_IdentifiersDistinct ==
    /\ [](Distinct(IdsOf(file.devices)))
    /\ [][ (crud'.op = "createDevice" /\ crud'.result.raised = NoneVal) =>
             LET before == IdsOf(netmiko_load_devices(file).value)
                 new_id == crud'.result.value.id
             IN /\ IdsOf(file'.devices) = Append(before, new_id)
                /\ \A i \in 1..Len(before) : before[i] < new_id
                /\ IF before = <<>> THEN new_id = 1
                   ELSE \E i \in 1..Len(before) : before[i] = new_id - 1
         ]_vars
    /\ [][ (crud'.op = "updateDevice" /\ crud'.result.raised = NoneVal) =>
             /\ IdsOf(file'.devices) = IdsOf(file.devices)
             /\ crud'.result.value # PyNone => crud'.result.value.id = crud'.id
         ]_vars

\* a create on an inventory with a gap left by a delete: the new identifier
\* is above the number of records, and the identifiers are distinct
C15_Witness ==
    /\ CrudReturned("createDevice")
    /\ Len(file.devices) >= 2
    /\ crud.result.value.id > Len(file.devices)
    /\ crud.result.value.id = Max({file.devices[i].id : i \in 1..Len(file.devices)})
    /\ Distinct(IdsOf(file.devices))

====
